---- MODULE Spec2Model ----
(***************************************************************************)
(* Model of gnss_ins_sim/sim/sim_data.py: the Sim_data container, its unit *)
(* conversion functions, and its export and plot dispatch.                 *)
(*                                                                         *)
(* Numbers.  A float is modelled exactly as a pair <<a, e>> standing for   *)
(* the real a * D2R^e, D2R = pi/180.  Multiplication is exact, so          *)
(* x * D2R * (1.0/D2R) = x (the code's result up to rounding), and         *)
(* x * 0.0 = 0.  Arrays are float arrays.                                  *)
(*                                                                         *)
(* Optional arguments.  None is << >> and a supplied value v is <<v>>.     *)
(*                                                                         *)
(* Data.  A value is a record [kind, v, items], v its cells as a sequence   *)
(* of rows and items its entries:                                          *)
(*   "float"    a Python float,             v one row of one number        *)
(*   "float64"  a numpy float64 scalar,     v one row of one number        *)
(*   "ndarray1" a numpy array of ndim 1,    v one row, the elements        *)
(*   "ndarray2" a numpy array of ndim 2,    v the rows                     *)
(*   "dict"     a dict in insertion order,  items a sequence of [k, d]     *)
(***************************************************************************)
EXTENDS Integers, Sequences, FiniteSets, TLC

VARIABLES units, output_units, legend, plottable, data, last, files, draws

vars == <<units, output_units, legend, plottable, data, last, files, draws>>

dataset == <<units, output_units, legend, plottable, data>>

\* ------------------------------------------------------------------ bounds

MaxUnits == 2

MaxCols == 2

MaxKeys == 2

\* ----------------------------------------------------------------- helpers

None == << >>

Some(v) == <<v>>

Min(a, b) == IF a < b THEN a ELSE b

Max(a, b) == IF a < b THEN b ELSE a

SeqsUpTo(S, n) == UNION {[1..k -> S] : k \in 0..n}

\* ----------------------------------------------------------------- numbers

Num(a) == <<a, 0>>

NumZero == <<0, 0>>

D2R == <<1, 1>>

R2D == <<1, -1>>

NumMul(x, s) == IF x[1] * s[1] = 0 THEN NumZero ELSE <<x[1] * s[1], x[2] + s[2]>>

\* -------------------------------------------------------------------- data

Float(n) == [kind |-> "float", v |-> <<<<n>>>>, items |-> << >>]

Float64(n) == [kind |-> "float64", v |-> <<<<n>>>>, items |-> << >>]

Array1(elems) == [kind |-> "ndarray1", v |-> <<elems>>, items |-> << >>]

Array2(rows) == [kind |-> "ndarray2", v |-> rows, items |-> << >>]

Dict(entries) == [kind |-> "dict", v |-> << >>, items |-> entries]

\* ------------------------------------------------------ Sim_data.__init__

Sim_data_init_NoPad(units_arg, output_units_arg) ==
    LET u == IF units_arg = None THEN << >> ELSE units_arg[1]
    IN  IF output_units_arg = None
        THEN [units |-> u, output_units |-> u]
        ELSE [units |-> u, output_units |-> output_units_arg[1]]

Sim_data_init(units_arg, output_units_arg) ==
    LET u == IF units_arg = None THEN << >> ELSE units_arg[1]
    IN  IF output_units_arg = None
        THEN [units |-> u, output_units |-> u]
        ELSE LET o == output_units_arg[1]
                 len_in == Len(u)
                 len_out == Len(o)
             IN  IF len_in > len_out
                 THEN [units |-> u,
                       output_units |-> o \o SubSeq(u, len_out + 1, len_in)]
                 ELSE IF len_in < len_out
                 THEN [units |-> u \o SubSeq(o, len_in + 1, len_out),
                       output_units |-> o]
                 ELSE [units |-> u, output_units |-> o]

\* -------------------------------------------------- unit_conversion_scale

ScaleOf(s, d) ==
    IF s = "deg" /\ d = "rad" THEN D2R
    ELSE IF s = "deg/s" /\ d = "rad/s" THEN D2R
    ELSE IF s = "rad" /\ d = "deg" THEN R2D
    ELSE IF s = "rad/s" /\ d = "deg/s" THEN R2D
    ELSE NumZero

unit_conversion_scale(src_unit, dst_unit) ==
    LET m == Len(dst_unit)
    IN  IF Len(src_unit) < m
        THEN [err |-> "IndexError", scale |-> << >>]
        ELSE [err |-> "none",
              scale |-> [i \in 1..m |-> ScaleOf(src_unit[i], dst_unit[i])]]

\* -------------------------------------------- convert_unit_ndarray_scalar

ScaleRow(row, scale) ==
    [j \in 1..Len(row) |->
        IF j <= Len(scale) /\ scale[j] # NumZero
        THEN NumMul(row[j], scale[j]) ELSE row[j]]

\* [err, ret, arg]: the error raised, the value returned, and the value of
\* the caller's object x after the call.
convert_unit_ndarray_scalar(x, scale) ==
    LET m == Len(scale)
    IN  IF x.kind = "ndarray2"
        THEN LET y == Array2([r \in 1..Len(x.v) |-> ScaleRow(x.v[r], scale)])
             IN  [err |-> "none", ret |-> y, arg |-> y]
        ELSE IF x.kind = "ndarray1"
        THEN IF m = 0
             THEN [err |-> "IndexError", ret |-> x, arg |-> x]
             ELSE IF scale[1] # NumZero
             THEN [err |-> "none",
                   ret |-> Array1([j \in 1..Len(x.v[1]) |->
                                      NumMul(x.v[1][j], scale[1])]),
                   arg |-> x]
             ELSE [err |-> "none", ret |-> x, arg |-> x]
        ELSE IF x.kind \in {"float", "float64"}
        THEN IF m = 0
             THEN [err |-> "IndexError", ret |-> x, arg |-> x]
             ELSE [err |-> "none",
                   ret |-> Float64(NumMul(x.v[1][1], scale[1])),
                   arg |-> x]
        ELSE [err |-> "AttributeError", ret |-> x, arg |-> x]

\* ------------------------------------------------------------ convert_unit

RECURSIVE ConvertEntries(_, _, _, _)
\* The loop of convert_unit over the shallow copy x of a dict: entries[n..]
\* are still to do, done holds x's entries so far and args the caller's.
ConvertEntries(entries, scale, done, args) ==
    IF entries = << >>
    THEN [err |-> "none", ret |-> done, arg |-> args]
    ELSE LET e == Head(entries)
             r == convert_unit_ndarray_scalar(e.d, scale)
         IN  IF r.err # "none"
             THEN [err |-> r.err, ret |-> done \o entries, arg |-> args \o entries]
             ELSE ConvertEntries(Tail(entries), scale,
                                 Append(done, [k |-> e.k, d |-> r.ret]),
                                 Append(args, [k |-> e.k, d |-> r.arg]))

convert_unit_InPlace(d, src_unit, dst_unit) ==
    LET s == unit_conversion_scale(src_unit, dst_unit)
    IN  IF s.err # "none"
        THEN [err |-> s.err, ret |-> d, arg |-> d]
        ELSE IF d.kind = "dict"
        THEN LET r == ConvertEntries(d.items, s.scale, << >>, << >>)
             IN  [err |-> r.err, ret |-> Dict(r.ret), arg |-> Dict(r.arg)]
        ELSE convert_unit_ndarray_scalar(d, s.scale)

convert_unit(d, src_unit, dst_unit) ==
    LET s == unit_conversion_scale(src_unit, dst_unit)
    IN  IF s.err # "none"
        THEN [err |-> s.err, ret |-> d, arg |-> d]
        ELSE IF d.kind = "float"
        THEN [err |-> "AttributeError", ret |-> d, arg |-> d]
        ELSE IF d.kind = "dict"
        THEN LET r == ConvertEntries(d.items, s.scale, << >>, << >>)
             IN  [err |-> r.err, ret |-> Dict(r.ret), arg |-> Dict(r.arg)]
        ELSE LET r == convert_unit_ndarray_scalar(d, s.scale)
             IN  [err |-> r.err, ret |-> r.ret, arg |-> d]

\* ------------------------------------------------------ Sim_data.add_data

HasKey(items, key) == \E n \in 1..Len(items) : items[n].k = key

\* self.data[key] = d on a dict: an existing key keeps its place.
DictSet(items, key, d) ==
    IF HasKey(items, key)
    THEN [n \in 1..Len(items) |->
             IF items[n].k = key THEN [k |-> key, d |-> d] ELSE items[n]]
    ELSE Append(items, [k |-> key, d |-> d])

DictGet(items, key) == items[CHOOSE n \in 1..Len(items) : items[n].k = key].d

Keys(items) == [n \in 1..Len(items) |-> items[n].k]

\* [err, data]: the error raised and self.data after the call.
add_data_NoLengthCheck(self_units, self_data, d, key, u) ==
    LET c == IF u # None /\ Len(u[1]) = Len(self_units) /\ u[1] # self_units
             THEN convert_unit(d, u[1], self_units)
             ELSE [err |-> "none", ret |-> d, arg |-> d]
    IN  IF c.err # "none"
        THEN [err |-> c.err, data |-> self_data]
        ELSE IF key = None
        THEN [err |-> "none", data |-> c.ret]
        ELSE [err |-> "none",
              data |-> Dict(DictSet(IF self_data.kind = "dict"
                                    THEN self_data.items ELSE << >>,
                                    key[1], c.ret))]

add_data_KeepKeys(self_units, self_data, d, key, u) ==
    IF u # None /\ Len(u[1]) # Len(self_units)
    THEN [err |-> "ValueError", data |-> self_data]
    ELSE LET c == IF u # None /\ u[1] # self_units
                  THEN convert_unit(d, u[1], self_units)
                  ELSE [err |-> "none", ret |-> d, arg |-> d]
         IN  IF c.err # "none"
             THEN [err |-> c.err, data |-> self_data]
             ELSE IF key = None /\ self_data.kind # "dict"
             THEN [err |-> "none", data |-> c.ret]
             ELSE [err |-> "none",
                   data |-> Dict(DictSet(IF self_data.kind = "dict"
                                         THEN self_data.items ELSE << >>,
                                         IF key = None THEN 0 ELSE key[1], c.ret))]

add_data_NoConversion(self_units, self_data, d, key, u) ==
    IF u # None /\ Len(u[1]) # Len(self_units)
    THEN [err |-> "ValueError", data |-> self_data]
    ELSE IF key = None
    THEN [err |-> "none", data |-> d]
    ELSE [err |-> "none",
          data |-> Dict(DictSet(IF self_data.kind = "dict"
                                THEN self_data.items ELSE << >>,
                                key[1], d))]

add_data_DropKeys(self_units, self_data, d, key, u) ==
    IF u # None /\ Len(u[1]) # Len(self_units)
    THEN [err |-> "ValueError", data |-> self_data]
    ELSE LET c == IF u # None /\ u[1] # self_units
                  THEN convert_unit(d, u[1], self_units)
                  ELSE [err |-> "none", ret |-> d, arg |-> d]
         IN  IF c.err # "none"
             THEN [err |-> c.err, data |-> self_data]
             ELSE IF key = None
             THEN [err |-> "none", data |-> c.ret]
             ELSE [err |-> "none", data |-> Dict(DictSet(<< >>, key[1], c.ret))]

add_data(self_units, self_data, d, key, u) ==
    IF u # None /\ Len(u[1]) # Len(self_units)
    THEN [err |-> "ValueError", data |-> self_data]
    ELSE LET c == IF u # None /\ u[1] # self_units
                  THEN convert_unit(d, u[1], self_units)
                  ELSE [err |-> "none", ret |-> d, arg |-> d]
         IN  IF c.err # "none"
             THEN [err |-> c.err, data |-> self_data]
             ELSE IF key = None
             THEN [err |-> "none", data |-> c.ret]
             ELSE [err |-> "none",
                   data |-> Dict(DictSet(IF self_data.kind = "dict"
                                         THEN self_data.items ELSE << >>,
                                         key[1], c.ret))]

\* -------------------------------------------------- Sim_data.save_to_file

\* ' (' + unit + ')', or '' when the column has no display unit
StrUnit(out_units, i) ==
    IF i < Len(out_units) THEN <<" (", out_units[i + 1], ")">> ELSE << >>

RECURSIVE HeaderColumns(_, _, _, _, _)
\* header_line after the columns i..cols-1 are added, as a sequence of the
\* strings concatenated
HeaderColumns(i, cols, name, out_units, leg) ==
    IF i >= cols
    THEN << >>
    ELSE (IF leg # None /\ cols = Len(leg[1])
          THEN <<leg[1][i + 1]>>
          ELSE <<name, "_", ToString(i)>>)
         \o StrUnit(out_units, i) \o <<",">>
         \o HeaderColumns(i + 1, cols, name, out_units, leg)

\* [err, cols]
Columns(self_data) ==
    IF self_data.kind = "dict"
    THEN IF self_data.items = << >>
         THEN [err |-> "none", cols |-> 0]
         ELSE LET d == self_data.items[1].d
              IN  IF d.kind \in {"float", "dict"}
                  THEN [err |-> "AttributeError", cols |-> 0]
                  ELSE IF d.kind = "ndarray2"
                  THEN [err |-> "none", cols |-> Len(d.v[1])]
                  ELSE [err |-> "none", cols |-> 0]
    ELSE IF self_data.kind = "ndarray2"
    THEN [err |-> "none", cols |-> Len(self_data.v[1])]
    ELSE [err |-> "none", cols |-> 0]

HeaderLine(cols, name, out_units, leg) ==
    IF cols > 0
    THEN LET h == HeaderColumns(0, cols, name, out_units, leg)
         IN  SubSeq(h, 1, Len(h) - 1)
    ELSE <<name>> \o StrUnit(out_units, 0)

RECURSIVE SaveEntries(_, _, _, _, _, _, _, _)
\* The loop over a dict: one np.savetxt call per entry until one raises.
\* done holds the entries gone through, as the calls left them.
SaveEntries(entries, data_dir, name, self_units, out_units, header, calls, done) ==
    IF entries = << >>
    THEN [err |-> "none", calls |-> calls, items |-> done]
    ELSE LET e == Head(entries)
             c == convert_unit(e.d, self_units, out_units)
         IN  IF c.err # "none"
             THEN [err |-> c.err, calls |-> calls,
                   items |-> done \o <<[k |-> e.k, d |-> c.arg]>> \o Tail(entries)]
             ELSE SaveEntries(Tail(entries), data_dir, name, self_units, out_units,
                              header,
                              Append(calls,
                                     [path |-> <<data_dir, "//", name, "-",
                                                 ToString(e.k), ".csv">>,
                                      table |-> c.ret, header |-> header]),
                              Append(done, [k |-> e.k, d |-> c.arg]))

\* [err, calls, data]: the error raised, the np.savetxt calls made and
\* self.data after the call.
save_to_file(self_units, out_units, leg, self_data, name, data_dir) ==
    LET n == Columns(self_data)
        header == HeaderLine(n.cols, name, out_units, leg)
    IN  IF n.err # "none"
        THEN [err |-> n.err, calls |-> << >>, data |-> self_data]
        ELSE IF self_data.kind = "dict"
        THEN LET r == SaveEntries(self_data.items, data_dir, name, self_units,
                                  out_units, header, << >>, << >>)
             IN  [err |-> r.err, calls |-> r.calls, data |-> Dict(r.items)]
        ELSE LET c == convert_unit(self_data, self_units, out_units)
             IN  IF c.err # "none"
                 THEN [err |-> c.err, calls |-> << >>, data |-> c.arg]
                 ELSE [err |-> "none",
                       calls |-> <<[path |-> <<data_dir, "//", name, ".csv">>,
                                    table |-> c.ret, header |-> header]>>,
                       data |-> c.arg]

\* --------------------------------------------------------- Sim_data.plot

\* Angles are multiples of pi/PiSteps: math.pi is PiSteps and a number
\* Num(a) stored in a plotted Dataset is the angle a * pi / PiSteps.
PiSteps == 4

Pi == PiSteps

TWO_PI == 2 * PiSteps

\* The difference of two stored numbers (both as written, exponent 0).
NumSub(x, y) == IF x[1] - y[1] = 0 THEN NumZero ELSE <<x[1] - y[1], x[2]>>

Dims(d) == IF d.kind = "ndarray2" THEN 2 ELSE IF d.kind = "ndarray1" THEN 1 ELSE 0

\* y - r with numpy's broadcasting: [err, ret]
Subtract(y, r) ==
    IF y.kind = "dict" \/ r.kind = "dict"
    THEN [err |-> "TypeError", ret |-> y]
    ELSE LET yr == Len(y.v)
             yc == Len(y.v[1])
             rr == Len(r.v)
             rc == Len(r.v[1])
             rows == Max(yr, rr)
             cols == Max(yc, rc)
             cells == [i \in 1..rows |-> [j \in 1..cols |->
                          NumSub(y.v[IF yr = 1 THEN 1 ELSE i][IF yc = 1 THEN 1 ELSE j],
                                 r.v[IF rr = 1 THEN 1 ELSE i][IF rc = 1 THEN 1 ELSE j])]]
             dims == Max(Dims(y), Dims(r))
         IN  IF ~(yr = rr \/ yr = 1 \/ rr = 1) \/ ~(yc = rc \/ yc = 1 \/ rc = 1)
             THEN [err |-> "ValueError", ret |-> y]
             ELSE [err |-> "none",
                   ret |-> [kind |-> IF dims = 2 THEN "ndarray2"
                                     ELSE IF dims = 1 THEN "ndarray1"
                                     ELSE IF y.kind = "float" /\ r.kind = "float"
                                     THEN "float" ELSE "float64",
                            v |-> cells, items |-> << >>]]

WrapCell_NoShift(x) == <<x[1] % TWO_PI, x[2]>>

\* y % TWO_PI, then - TWO_PI where the residue is > math.pi
WrapCell(x) ==
    LET m == x[1] % TWO_PI
    IN  IF m > Pi THEN <<m - TWO_PI, x[2]>>
        ELSE IF m = 0 THEN NumZero ELSE <<m, x[2]>>

\* The try block of __plot_dict and __plot_array: [err, ret]
Difference(self_units, y, r) ==
    LET d == Subtract(y, r)
    IN  IF d.err # "none"
        THEN d
        ELSE IF self_units = <<"rad", "rad", "rad">>
        THEN IF Dims(d.ret) = 0
             THEN [err |-> "TypeError", ret |-> d.ret]
             ELSE [err |-> "none",
                   ret |-> [d.ret EXCEPT !.v =
                              [i \in 1..Len(d.ret.v) |-> [j \in 1..Len(d.ret.v[i]) |->
                                  WrapCell(d.ret.v[i][j])]]]]
        ELSE d

\* The call of one of the three figure functions: [err, call]
Figure(plot3d, title, x_data, y_data) ==
    IF plot3d = 1 \/ plot3d = 2
    THEN [err |-> IF y_data.kind = "ndarray2" /\ Len(y_data.v[1]) = 3 THEN "none"
                  ELSE "ValueError",
          call |-> [func |-> IF plot3d = 1 THEN "plot3d_in_one_figure"
                             ELSE "plot3d_proj_in_one_figure",
                    title |-> title, x |-> None, y |-> y_data]]
    ELSE [err |-> IF Dims(y_data) > 0 THEN "none"
                  ELSE IF x_data # None THEN "ValueError"
                  ELSE "IndexError",
          call |-> [func |-> "plot_in_one_figure",
                    title |-> title, x |-> x_data, y |-> y_data]]

\* What follows the x axis and the reference in both __plot_dict and
\* __plot_array: the difference, the conversion, the figure. [err, calls]
PlotSeries(self_units, out_units, y, x, x_data, ref_data, plot3d, title, handler_err) ==
    LET d == IF ref_data = None THEN [err |-> "none", ret |-> y]
             ELSE Difference(self_units, y, ref_data[1])
    IN  IF d.err # "none"
        THEN [err |-> handler_err, calls |-> << >>]
        ELSE LET c == convert_unit(d.ret, self_units, out_units)
             IN  IF c.err # "none"
                 THEN [err |-> c.err, calls |-> << >>]
                 ELSE IF plot3d \notin {1, 2} /\ x.output_units = << >>
                 THEN [err |-> "IndexError", calls |-> << >>]
                 ELSE LET f == Figure(plot3d, title, x_data, c.ret)
                      IN  [err |-> f.err, calls |-> <<f.call>>]

RECURSIVE plot_dict(_, _, _, _, _, _, _, _, _, _)
\* The loop of __plot_dict over the keys still to plot.
plot_dict(self_units, out_units, self_data, name, x, keys, ref, plot3d, n, calls) ==
    IF n > Len(keys)
    THEN [err |-> "none", calls |-> calls]
    ELSE LET i == keys[n]
         IN  IF ~HasKey(self_data.items, i)
                \/ (x.data.kind = "dict" /\ x.data.items # << >>
                    /\ ~HasKey(x.data.items, i))
                \/ (ref # None /\ ref[1].data.kind = "dict"
                    /\ ~HasKey(ref[1].data.items, i))
             THEN [err |-> "KeyError", calls |-> calls]
             ELSE LET y == DictGet(self_data.items, i)
                      x_data == IF x.data.kind = "dict"
                                THEN IF x.data.items = << >> THEN None
                                     ELSE Some(DictGet(x.data.items, i))
                                ELSE Some(x.data)
                      ref_data == IF ref = None THEN None
                                  ELSE IF ref[1].data.kind = "dict"
                                  THEN Some(DictGet(ref[1].data.items, i))
                                  ELSE Some(ref[1].data)
                      r == PlotSeries(self_units, out_units, y, x, x_data, ref_data,
                                      plot3d, <<name, "_", ToString(i)>>,
                                      IF ref_data # None /\ ref_data[1].kind = "float"
                                      THEN "AttributeError" ELSE "ValueError")
                  IN  IF r.err # "none"
                      THEN [err |-> r.err, calls |-> calls \o r.calls]
                      ELSE plot_dict(self_units, out_units, self_data, name, x, keys,
                                     ref, plot3d, n + 1, calls \o r.calls)

plot_array(self_units, out_units, self_data, name, x, ref, plot3d) ==
    LET x_data == IF x.data.kind = "dict"
                  THEN IF x.data.items = << >> THEN None
                       ELSE Some(x.data.items[1].d)
                  ELSE Some(x.data)
        ref_data == IF ref = None THEN None ELSE Some(ref[1].data)
    IN  PlotSeries(self_units, out_units, self_data, x, x_data, ref_data, plot3d,
                   <<name>>, "AttributeError")

plot_IgnorePlottable(self_units, out_units, self_plottable, self_data, name, x, key, ref, plot3d) ==
    IF self_data.kind = "dict"
    THEN IF key = None
         THEN [err |-> "TypeError", calls |-> << >>]
         ELSE plot_dict(self_units, out_units, self_data, name, x,
                        IF key[1] = << >> THEN Keys(self_data.items) ELSE key[1],
                        ref, plot3d, 1, << >>)
    ELSE plot_array(self_units, out_units, self_data, name, x, ref, plot3d)

\* [err, calls]: the error raised and the calls of the figure functions.
plot(self_units, out_units, self_plottable, self_data, name, x, key, ref, plot3d) ==
    IF ~self_plottable
    THEN [err |-> "none", calls |-> << >>]
    ELSE IF self_data.kind = "dict"
    THEN IF key = None
         THEN [err |-> "TypeError", calls |-> << >>]
         ELSE plot_dict(self_units, out_units, self_data, name, x,
                        IF key[1] = << >> THEN Keys(self_data.items) ELSE key[1],
                        ref, plot3d, 1, << >>)
    ELSE plot_array(self_units, out_units, self_data, name, x, ref, plot3d)

\* ------------------------------------------------------- inputs and state

UnitNames == {"deg", "rad", "deg/s", "rad/s", "m"}

CtorUnitNames == {"m", "s", "ft", "Hz"}

Name == "gyro"

EmptyDict == Dict(<< >>)

\* The fields of an object that is not under test in a specification.
Idle ==
    /\ units = << >>
    /\ output_units = << >>
    /\ legend = None
    /\ plottable = TRUE
    /\ data = EmptyDict
    /\ files = << >>
    /\ draws = << >>

\* ------------------------------------------- specification: construction

CtorArgs == {None} \cup {Some(l) : l \in SeqsUpTo(CtorUnitNames, MaxUnits)}

InitNew ==
    /\ Idle
    /\ \E ua \in CtorArgs, oa \in CtorArgs :
          last = [op |-> "new", units |-> ua, output_units |-> oa]

Construct ==
    /\ last.op = "new"
    /\ LET r == Sim_data_init(last.units, last.output_units)
       IN  /\ units' = r.units
           /\ output_units' = r.output_units
    /\ last' = [last EXCEPT !.op = "__init__"]
    /\ UNCHANGED <<legend, plottable, data, files, draws>>

NextNew == Construct

SpecInit == InitNew /\ [][NextNew]_vars

ArgList(a) == IF a = None THEN << >> ELSE a[1]

\* C1: after construction the two unit lists have the same length, the
\* longer of the two supplied; every supplied entry is kept at its position,
\* every added entry is the other list's entry at that position, and with
\* output_units absent the display units equal the storage units.
C1_UnitListsPadded ==
    last.op = "__init__" =>
        LET u == ArgList(last.units)
            o == ArgList(last.output_units)
        IN  /\ Len(units) = Len(output_units)
            /\ last.output_units = None => output_units = units /\ units = u
            /\ last.output_units # None =>
                  /\ Len(units) = Max(Len(u), Len(o))
                  /\ \A i \in 1..Len(u) : units[i] = u[i]
                  /\ \A i \in 1..Len(o) : output_units[i] = o[i]
                  /\ \A i \in 1..Len(units) : i > Len(u) => units[i] = o[i]
                  /\ \A i \in 1..Len(units) : i > Len(o) => output_units[i] = u[i]
            /\ (u = <<"m", "s">> /\ last.output_units = Some(<<"ft">>))
                  => output_units = <<"ft", "s">> /\ units = <<"m", "s">>
            /\ (u = <<"m">> /\ last.output_units = Some(<<"ft", "Hz">>))
                  => units = <<"m", "Hz">> /\ output_units = <<"ft", "Hz">>

\* Both paddings happened: a Dataset built from units=[m,s], outputUnits=[ft].
C1_Witness ==
    /\ last.op = "__init__"
    /\ last.units = Some(<<"m", "s">>)
    /\ last.output_units = Some(<<"ft">>)
    /\ output_units = <<"ft", "s">>

\* --------------------------------------------- specification: conversion

Table(rows, cols) ==
    Array2([r \in 1..rows |-> [j \in 1..cols |-> Num((r - 1) * cols + j)]])

Vector == Array1(<<Num(1), Num(2)>>)

Scalars == {Float(Num(2)), Float64(Num(2))}

Tables == {Table(2, c) : c \in 1..MaxCols}

Dicts ==
    {Dict(<<[k |-> 0, d |-> t]>>) : t \in Tables}
    \cup {Dict(<<[k |-> 0, d |-> Vector], [k |-> 1, d |-> Table(2, MaxCols)]>>),
          Dict(<<[k |-> 0, d |-> Float64(Num(2))]>>)}

ConvData == Scalars \cup {Vector} \cup Tables \cup Dicts

ConvUnits == SeqsUpTo(UnitNames, MaxUnits)

InitConv ==
    /\ Idle
    /\ \E d \in ConvData, s \in ConvUnits, t \in ConvUnits :
          /\ Len(s) = Len(t)
          /\ last = [op |-> "args", data |-> d, src |-> s, dst |-> t]

\* convert_unit(data, src, dst)
CallConvert ==
    /\ last.op = "args"
    /\ LET r == convert_unit(last.data, last.src, last.dst)
       IN  last' = [op |-> "convert_unit", data |-> last.data, src |-> last.src,
                    dst |-> last.dst, err |-> r.err, ret |-> r.ret, arg |-> r.arg]
    /\ UNCHANGED <<dataset, files, draws>>

\* convert_unit_ndarray_scalar(x, scale), scale any vector over 0, D2R, 1/D2R
CallApplyScale ==
    /\ last.op = "args"
    /\ last.data.kind # "dict"
    /\ LET s == unit_conversion_scale(last.src, last.dst)
           r == convert_unit_ndarray_scalar(last.data, s.scale)
       IN  last' = [op |-> "convert_unit_ndarray_scalar", data |-> last.data,
                    src |-> last.src, dst |-> last.dst,
                    err |-> r.err, ret |-> r.ret, arg |-> r.arg]
    /\ UNCHANGED <<dataset, files, draws>>

\* convert_unit(convert_unit(x, A, B), B, A)
CallRoundTrip ==
    /\ last.op = "args"
    /\ LET y == convert_unit(last.data, last.src, last.dst)
           z == IF y.err = "none" THEN convert_unit(y.ret, last.dst, last.src) ELSE y
       IN  last' = [op |-> "round_trip", data |-> last.data, src |-> last.src,
                    dst |-> last.dst, err |-> z.err, ret |-> z.ret, arg |-> y.arg]
    /\ UNCHANGED <<dataset, files, draws>>

NextConv == CallConvert \/ CallApplyScale \/ CallRoundTrip

SpecConv == InitConv /\ [][NextConv]_vars

\* C2: after convert_unit or convert_unit_ndarray_scalar returns or raises,
\* the value the caller passed, tables inside a dict included, is what it
\* was before the call.
C2_InputNotMutated ==
    last.op \in {"convert_unit", "convert_unit_ndarray_scalar"} => last.arg = last.data

\* C6: for a scalar, a 1-D sequence or a 2-D table x and unit lists A, B of
\* equal length, convert(convert(x, A, B), B, A) succeeds and returns x.
C6_RoundTrip ==
    (last.op = "round_trip" /\ last.data.kind # "dict")
        => last.err = "none" /\ last.ret.v = last.data.v

\* ------------------------------------------------ specification: writes

WriteUnitNames == {"deg", "rad", "deg/s", "rad/s"}

WriteUnits == SeqsUpTo(WriteUnitNames, MaxUnits)

KeyArgs == {None} \cup {Some(k) : k \in 0..(MaxKeys - 1)}

\* Payloads that writes without units leave behind: none yet, a bare array,
\* one key, two keys.
PriorPayloads ==
    {EmptyDict, Vector,
     Dict(<<[k |-> 0, d |-> Table(2, MaxCols)]>>),
     Dict(<<[k |-> 0, d |-> Vector], [k |-> 1, d |-> Table(2, MaxCols)]>>)}

\* A Dataset with any storage units holding one of the payloads, and the
\* arguments of one add_data call on it.
InitWrite ==
    /\ \E ua \in {None} \cup {Some(l) : l \in WriteUnits} :
          LET r == Sim_data_init(ua, None)
          IN  /\ units = r.units
              /\ output_units = r.output_units
    /\ legend = None
    /\ plottable = TRUE
    /\ data \in PriorPayloads
    /\ \E d \in ConvData, key \in KeyArgs,
          u \in {None} \cup {Some(l) : l \in WriteUnits} :
          /\ key # None => d.kind # "dict"
          /\ last = [op |-> "call", data |-> d, key |-> key, units |-> u,
                     err |-> "none", prekind |-> data.kind,
                     prekeys |-> Keys(data.items)]
    /\ files = << >>
    /\ draws = << >>

\* self.add_data(d, key, u): last records the call, its outcome and the
\* shape of the payload it found.
Write(d, key, u) ==
    /\ key # None => d.kind # "dict"
    /\ LET r == add_data(units, data, d, key, u)
       IN  /\ data' = r.data
           /\ last' = [op |-> "add_data", data |-> d, key |-> key, units |-> u,
                       err |-> r.err, prekind |-> data.kind,
                       prekeys |-> Keys(data.items)]
    /\ files' = << >>
    /\ UNCHANGED <<units, output_units, legend, plottable, draws>>

WriteCall ==
    /\ last.op = "call"
    /\ Write(last.data, last.key, last.units)

NextWrite == WriteCall

SpecWrite == InitWrite /\ [][NextWrite]_vars

\* C4: a write whose callerUnits differ in length from storageUnits raises
\* the length error and leaves payload, storageUnits and displayUnits as
\* they were.
C4_MismatchRejected ==
    [][(/\ last'.op = "add_data"
        /\ last'.units # None
        /\ Len(last'.units[1]) # Len(units))
       => (/\ last'.err = "ValueError"
           /\ data' = data
           /\ units' = units
           /\ output_units' = output_units)]_vars

\* A keyed write with units of the wrong length was rejected on a keyed
\* payload, which is still there.
C4_Witness ==
    /\ last.op = "add_data"
    /\ last.err = "ValueError"
    /\ last.key # None
    /\ last.prekind = "dict"
    /\ last.prekeys # << >>
    /\ data.items # << >>

\* The factor the fixed table gives for a column written in unit s and kept
\* in unit d; NumZero stands for "leave the column as it is".
TableFactor(s, d) ==
    CASE <<s, d>> \in {<<"deg", "rad">>, <<"deg/s", "rad/s">>} -> D2R
      [] <<s, d>> \in {<<"rad", "deg">>, <<"rad/s", "deg/s">>} -> R2D
      [] OTHER -> NumZero

Scaled(x, f) == IF f = NumZero THEN x ELSE NumMul(x, f)

\* The array d with column i multiplied by the factor for (from[i], to[i]);
\* a 1-D sequence is one column.
ColumnsScaled(d, from, to) ==
    IF d.kind = "ndarray2"
    THEN Array2([r \in 1..Len(d.v) |-> [j \in 1..Len(d.v[r]) |->
            IF j <= Len(to) THEN Scaled(d.v[r][j], TableFactor(from[j], to[j]))
            ELSE d.v[r][j]]])
    ELSE Array1([j \in 1..Len(d.v[1]) |->
            IF Len(to) > 0 THEN Scaled(d.v[1][j], TableFactor(from[1], to[1]))
            ELSE d.v[1][j]])

IsArray(d) == d.kind \in {"ndarray1", "ndarray2"}

\* What the last write stored: the payload, or the entry under its key.
Stored == IF last.key = None THEN data ELSE DictGet(data.items, last.key[1])

\* C5: a write of a table with callerUnits as long as storageUnits stores
\* the table with each column multiplied by the fixed-table factor of its
\* unit pair; a write with callerUnits equal to storageUnits, or with none,
\* stores the data as given.
C5_StoredConverted ==
    last.op = "add_data" =>
        /\ (last.units # None /\ Len(last.units[1]) = Len(units) /\ IsArray(last.data))
              => /\ last.err = "none"
                 /\ Stored = ColumnsScaled(last.data, last.units[1], units)
        /\ (last.units = None \/ last.units = Some(units))
              => last.err = "none" /\ Stored = last.data

\* A two-column table written in [deg, rad/s] into [rad, deg/s] storage.
C5_Witness ==
    /\ last.op = "add_data"
    /\ last.err = "none"
    /\ last.units = Some(<<"deg", "rad/s">>)
    /\ units = <<"rad", "deg/s">>
    /\ last.data = Table(2, 2)
    /\ last.key = Some(0)
    /\ Stored.v = <<<<<<1, 1>>, <<2, -1>>>>, <<<<3, 1>>, <<4, -1>>>>>>

\* ------------------------------------- specification: sequences of writes

SeqData ==
    {Float64(Num(2)), Vector, Table(2, MaxCols), Dict(<<[k |-> 0, d |-> Vector]>>)}

SeqUnitArgs == {None, Some(<< >>), Some(<<"rad">>), Some(<<"deg">>)}

\* The state after construction, with no units or with one storage unit.
Init ==
    /\ \E ua \in {None, Some(<<"rad">>)} :
          LET r == Sim_data_init(ua, None)
          IN  /\ units = r.units
              /\ output_units = r.output_units
    /\ legend = None
    /\ plottable = TRUE
    /\ data = EmptyDict
    /\ last = [op |-> "__init__"]
    /\ files = << >>
    /\ draws = << >>

AddData == \E d \in SeqData, key \in KeyArgs, u \in SeqUnitArgs : Write(d, key, u)

Next == AddData

Spec == Init /\ [][Next]_vars

\* C3: a successful write with no key leaves as payload exactly the value
\* written (converted to the storage units when caller units were given);
\* when that value is bare, no key and no entry written before is left.
C3_KeylessReplaces ==
    (last.op = "add_data" /\ last.key = None /\ last.err = "none") =>
        /\ last.units = None => data = last.data
        /\ (last.units # None /\ IsArray(last.data))
              => data = ColumnsScaled(last.data, last.units[1], units)
        /\ last.data.kind # "dict" => data.kind # "dict" /\ data.items = << >>

\* A bare value written with no key onto a payload that held all the keys.
C3_Witness ==
    /\ last.op = "add_data"
    /\ last.key = None
    /\ last.err = "none"
    /\ last.prekind = "dict"
    /\ Len(last.prekeys) = MaxKeys
    /\ last.data = Vector
    /\ data = Vector

\* ------------------------------------------- conversion: the zero sentinel

\* No column pairing of (src, dst) is in the fixed table.
AllOutsideTable(src, dst) ==
    \A i \in 1..Len(dst) : TableFactor(src[i], dst[i]) = NumZero

\* C12: when every column pairing of (srcUnits, dstUnits) is outside the
\* fixed table, convert succeeds and returns a value equal to its input,
\* whether the data is a scalar, a 1-D sequence, a 2-D table or a mapping.
C12_SentinelLeavesInput ==
    (last.op = "convert_unit" /\ AllOutsideTable(last.src, last.dst))
        => last.err = "none" /\ last.ret = last.data

\* ------------------------- specification: sequences of writes, with history

Entries(items) == {items[n] : n \in 1..Len(items)}

\* The value a write of d in caller units u is to leave in the payload.
WrittenValue(d, u) ==
    IF u = None \/ u[1] = units THEN d
    ELSE IF IsArray(d) THEN ColumnsScaled(d, u[1], units)
    ELSE [d EXCEPT !.v = <<<<Scaled(d.v[1][1], TableFactor(u[1][1], units[1]))>>>>]

\* The state after construction. Besides the last call, last keeps what the
\* writes so far amount to: since, the entries written since the most recent
\* keyless write; bare, whether every keyless write carried a scalar or a
\* table; reset, whether there was a keyless write; pre, the payload the
\* last call found.
InitKeys ==
    /\ \E ua \in {None, Some(<<"rad">>)} :
          LET r == Sim_data_init(ua, None)
          IN  /\ units = r.units
              /\ output_units = r.output_units
    /\ legend = None
    /\ plottable = TRUE
    /\ data = EmptyDict
    /\ last = [op |-> "__init__", err |-> "none", key |-> None, pre |-> EmptyDict,
               since |-> {}, bare |-> TRUE, reset |-> FALSE]
    /\ files = << >>
    /\ draws = << >>

KeysUnitArgs == {None, Some(<<"deg">>)}

\* self.add_data(d, key, u)
AddDataKeys ==
    \E d \in SeqData, key \in KeyArgs, u \in KeysUnitArgs :
        /\ key # None => d.kind # "dict"
        /\ LET r == add_data(units, data, d, key, u)
               ok == r.err = "none"
           IN  /\ data' = r.data
               /\ last' =
                    [op |-> "add_data", err |-> r.err, key |-> key, pre |-> data,
                     since |->
                         IF ~ok THEN last.since
                         ELSE IF key = None THEN {}
                         ELSE {e \in last.since : e.k # key[1]}
                              \cup {[k |-> key[1], d |-> WrittenValue(d, u)]},
                     bare |-> last.bare /\ ~(ok /\ key = None /\ d.kind = "dict"),
                     reset |-> last.reset \/ (ok /\ key = None)]
        /\ UNCHANGED <<units, output_units, legend, plottable, files, draws>>

NextKeys == AddDataKeys

SpecKeys == InitKeys /\ [][NextKeys]_vars

\* C11: after successful writes ending with a keyed write, no keyless write
\* having carried a mapping, the payload is a mapping whose entries are
\* exactly the keys written since the most recent keyless write (or since
\* creation), each with the data last written under it; a keyed write on a
\* bare payload leaves only its own key, and a keyed write on a mapping
\* leaves the entries of all other keys as they were.
C11_KeysSinceKeyless ==
    (last.op = "add_data" /\ last.err = "none" /\ last.key # None /\ last.bare) =>
        /\ data.kind = "dict"
        /\ Entries(data.items) = last.since
        /\ Cardinality({e.k : e \in last.since}) = Len(data.items)
        /\ last.pre.kind # "dict" => Keys(data.items) = <<last.key[1]>>
        /\ last.pre.kind = "dict" =>
              \A e \in Entries(last.pre.items) :
                  e.k # last.key[1] => e \in Entries(data.items)

\* After a keyless write of a bare value, every key written, the last one
\* over an entry that held other data.
C11_Witness ==
    /\ last.op = "add_data"
    /\ last.err = "none"
    /\ last.key # None
    /\ last.bare
    /\ last.reset
    /\ Len(data.items) = MaxKeys
    /\ last.pre.kind = "dict"
    /\ HasKey(last.pre.items, last.key[1])
    /\ DictGet(last.pre.items, last.key[1]) # DictGet(data.items, last.key[1])

\* ------------------------------------------------ specification: export

Dir == "out"

EntryData == {Table(2, MaxCols)}

RECURSIVE KeyedItems(_)
\* The entry lists that keyed writes of EntryData under n distinct keys of
\* 0..MaxKeys-1 leave, in every order of first writing.
KeyedItems(n) ==
    IF n = 0
    THEN {<< >>}
    ELSE {Append(items, [k |-> key, d |-> d]) :
             items \in {i \in KeyedItems(n - 1) : Len(i) = n - 1},
             key \in 0..(MaxKeys - 1), d \in EntryData}
         \cup KeyedItems(n - 1)

DistinctKeys(items) ==
    \A m, n \in 1..Len(items) : items[m].k = items[n].k => m = n

Ones(rows, cols) == Array2([r \in 1..rows |-> [j \in 1..cols |-> Num(1)]])

ExportPayloads ==
    {Dict(items) : items \in {i \in KeyedItems(MaxKeys) : DistinctKeys(i)}}
    \cup {Dict(<<[k |-> 0, d |-> Vector], [k |-> 1, d |-> Vector]>>),
          Dict(<<[k |-> 1, d |-> Table(2, 1)], [k |-> 0, d |-> Vector]>>),
          Dict(<<[k |-> 0, d |-> Float64(Num(2))], [k |-> 1, d |-> Float64(Num(3))]>>),
          Dict(<<[k |-> 0, d |-> Float(Num(2))]>>)}
    \cup Scalars \cup {Vector} \cup Tables

GyroUnits == <<"deg/s", "deg/s", "deg/s">>

GyroOutputUnits == <<"rad/s", "rad/s", "rad/s">>

\* A Dataset named Name after construction and writes without conversion:
\* any two unit lists, with or without a legend, holding one of the
\* payloads; and the gyro table of the end-to-end scenario.
InitExport ==
    /\ \/ /\ \E ua \in {None} \cup {Some(l) : l \in WriteUnits},
                oa \in {None} \cup {Some(l) : l \in WriteUnits} :
                LET r == Sim_data_init(ua, oa)
                IN  /\ units = r.units
                    /\ output_units = r.output_units
          /\ legend \in {None, Some(<<"x", "y">>)}
          /\ data \in ExportPayloads
       \/ /\ LET r == Sim_data_init(Some(GyroUnits), Some(GyroOutputUnits))
             IN  /\ units = r.units
                 /\ output_units = r.output_units
          /\ legend = None
          /\ data \in {Ones(2, 3), Dict(<<[k |-> 0, d |-> Ones(2, 3)]>>)}
    /\ plottable = TRUE
    /\ last = [op |-> "ready"]
    /\ files = << >>
    /\ draws = << >>

\* self.save_to_file(Dir)
Export ==
    /\ LET r == save_to_file(units, output_units, legend, data, Name, Dir)
       IN  /\ data' = r.data
           /\ files' = r.calls
           /\ last' = [op |-> "save_to_file", err |-> r.err]
    /\ UNCHANGED <<units, output_units, legend, plottable, draws>>

NextExport == Export

SpecExport == InitExport /\ [][NextExport]_vars

AllTables(d) ==
    IF d.kind = "dict"
    THEN \A n \in 1..Len(d.items) : d.items[n].d.kind = "ndarray2"
    ELSE d.kind = "ndarray2"

\* The tables of a payload of tables, in the order of export.
TablesOf(d) ==
    IF d.kind = "dict" THEN [n \in 1..Len(d.items) |-> d.items[n].d] ELSE <<d>>

GyroHeader ==
    <<"gyro", "_", "0", " (", "rad/s", ")", ",",
      "gyro", "_", "1", " (", "rad/s", ")", ",",
      "gyro", "_", "2", " (", "rad/s", ")">>

\* C7: export leaves payload and unit lists as they were, and for a payload
\* of 2-D tables it succeeds and serializes each stored table with column i
\* multiplied by the fixed-table factor of (storageUnits[i],
\* displayUnits[i]); the deg/s gyro table of ones is serialized as pi/180
\* in every cell under the header gyro_0 (rad/s),gyro_1 (rad/s),gyro_2 (rad/s).
C7_ExportConvertsAndKeeps ==
    [][last'.op = "save_to_file" =>
          /\ data' = data
          /\ units' = units
          /\ output_units' = output_units
          /\ AllTables(data) =>
                /\ last'.err = "none"
                /\ Len(files') = Len(TablesOf(data))
                /\ \A n \in 1..Len(files') :
                      files'[n].table =
                          ColumnsScaled(TablesOf(data)[n], units, output_units)
          /\ (data = Ones(2, 3) /\ units = GyroUnits /\ output_units = GyroOutputUnits)
                => /\ files'[1].header = GyroHeader
                   /\ files'[1].table.v = <<<<D2R, D2R, D2R>>, <<D2R, D2R, D2R>>>>
      ]_vars

\* The gyro table was exported and is still stored in deg/s.
C7_Witness ==
    /\ last.op = "save_to_file"
    /\ last.err = "none"
    /\ units = GyroUnits
    /\ output_units = GyroOutputUnits
    /\ data = Ones(2, 3)
    /\ Len(files) = 1
    /\ files[1].table.v = <<<<D2R, D2R, D2R>>, <<D2R, D2R, D2R>>>>

\* The file a path names: a doubled separator names the same file.
NormPath(path) == [n \in 1..Len(path) |-> IF path[n] = "//" THEN "/" ELSE path[n]]

\* C8: export of a keyed payload makes one serializer call per key, to
\* <directory>/<name>-<key>.csv, all with the same header, and no other
\* call; export of any other payload makes one call, to <directory>/<name>.csv.
C8_OneCallPerKey ==
    last.op = "save_to_file" =>
        IF data.kind = "dict"
        THEN /\ Len(files) = Len(data.items)
             /\ \A n \in 1..Len(files) :
                   /\ NormPath(files[n].path) =
                         <<Dir, "/", Name, "-", ToString(data.items[n].k), ".csv">>
                   /\ files[n].header = files[1].header
        ELSE /\ Len(files) = 1
             /\ NormPath(files[1].path) = <<Dir, "/", Name, ".csv">>

\* -------------------------------------------------- specification: plot

RadRadRad == <<"rad", "rad", "rad">>

PlotUnits ==
    {<< >>, <<"rad">>, <<"rad", "rad">>, RadRadRad, <<"rad", "rad", "deg">>,
     <<"deg", "deg", "deg">>}

\* deg for rad and rad for deg
Flipped(l) == [i \in 1..Len(l) |-> IF l[i] = "rad" THEN "deg" ELSE "rad"]

Angles == (0 - PiSteps)..PiSteps

AngleTable(a) == Array2(<<<<Num(a), Num(a + 1), Num(0 - a)>>>>)

AngleVector(a) == Array1(<<Num(a), Num(a + 1), Num(0 - a)>>)

PlotPayloads ==
    {AngleTable(a) : a \in Angles}
    \cup {Dict(<<[k |-> 0, d |-> AngleTable(a)]>>) : a \in Angles}
    \cup {Dict(<<[k |-> 1, d |-> AngleTable(a)], [k |-> 0, d |-> AngleVector(a)]>>) :
             a \in {0 - PiSteps, PiSteps}}
    \cup {AngleVector(a) : a \in {0 - PiSteps, 1, PiSteps}}
    \cup {EmptyDict, Float(Num(1)), Float64(Num(1)), Table(2, 2)}

RefTable(b) == Array2(<<<<Num(b), Num(b), Num(b)>>>>)

RefPayloads ==
    {RefTable(b) : b \in {0 - PiSteps, 0, PiSteps}}
    \cup {Dict(<<[k |-> 0, d |-> RefTable(b)]>>) : b \in {0 - PiSteps, 0}}
    \cup {AngleVector(PiSteps), Float64(Num(1)), EmptyDict}

XDatasets ==
    {[name |-> "time", data |-> Array1(<<Num(0)>>), output_units |-> <<"s">>],
     [name |-> "time", data |-> EmptyDict, output_units |-> <<"s">>],
     [name |-> "time", data |-> Dict(<<[k |-> 0, d |-> Array1(<<Num(0)>>)]>>),
      output_units |-> << >>]}

PlotKeyArgs == {None, Some(<< >>), Some(<<0>>), Some(<<1, 0>>)}

\* A Dataset after construction and writes without conversion, and the
\* arguments of one plot call on it.
InitPlot ==
    /\ \E l \in PlotUnits : \E oa \in {None, Some(Flipped(l))} :
          LET r == Sim_data_init(Some(l), oa)
          IN  /\ units = r.units
              /\ output_units = r.output_units
    /\ legend = None
    /\ plottable \in BOOLEAN
    /\ data \in PlotPayloads
    /\ \E x \in XDatasets, key \in PlotKeyArgs,
          ref \in {None} \cup {Some([data |-> r]) : r \in RefPayloads},
          plot3d \in 0..2 :
          last = [op |-> "call", x |-> x, key |-> key, ref |-> ref,
                  plot3d |-> plot3d, err |-> "none"]
    /\ files = << >>
    /\ draws = << >>

\* self.plot(x, key, ref, plot3d)
Plot ==
    /\ last.op = "call"
    /\ LET r == plot(units, output_units, plottable, data, Name,
                     last.x, last.key, last.ref, last.plot3d)
       IN  /\ draws' = r.calls
           /\ last' = [last EXCEPT !.op = "plot", !.err = r.err]
    /\ UNCHANGED <<dataset, files>>

NextPlot == Plot

SpecPlot == InitPlot /\ [][NextPlot]_vars

\* The series a figure of the last plot shows and its reference, when both
\* are arrays of one shape: the n-th key's for a keyed payload.
PlottedKeys ==
    IF data.kind # "dict" \/ last.key = None THEN << >>
    ELSE IF last.key[1] = << >> THEN Keys(data.items) ELSE last.key[1]

SeriesOf(n) == IF data.kind = "dict" THEN DictGet(data.items, PlottedKeys[n]) ELSE data

RefOf(n) ==
    IF last.ref[1].data.kind = "dict"
    THEN DictGet(last.ref[1].data.items, PlottedKeys[n])
    ELSE last.ref[1].data

\* series - reference, element by element
NaiveDifference(y, r) ==
    [y EXCEPT !.v = [i \in 1..Len(y.v) |-> [j \in 1..Len(y.v[i]) |->
                        Num(y.v[i][j][1] - r.v[i][j][1])]]]

\* The angle in (-pi, pi] that differs from a by a multiple of 2 pi.
Wrapped(a) ==
    CHOOSE w \in (1 - PiSteps)..PiSteps : (w - a) % (2 * PiSteps) = 0

WrappedDifference(y, r) ==
    [y EXCEPT !.v = [i \in 1..Len(y.v) |-> [j \in 1..Len(y.v[i]) |->
                        Num(Wrapped(y.v[i][j][1] - r.v[i][j][1]))]]]

ExpectedDifference(y, r) ==
    IF units = RadRadRad THEN WrappedDifference(y, r) ELSE NaiveDifference(y, r)

SameShape(y, r) ==
    /\ IsArray(y)
    /\ y.kind = r.kind
    /\ Len(y.v) = Len(r.v)
    /\ Len(y.v[1]) = Len(r.v[1])

\* C9 as stated: with a reference, what is plotted is the difference itself,
\* wrapped into (-pi, pi] for [rad, rad, rad] storage and naive otherwise.
C9_PlottedIsDifference ==
    (last.op = "plot" /\ last.ref # None) =>
        \A n \in 1..Len(draws) :
            SameShape(SeriesOf(n), RefOf(n))
                => draws[n].y = ExpectedDifference(SeriesOf(n), RefOf(n))

\* C9 amended: with a reference, the difference is wrapped into (-pi, pi]
\* (congruent to the naive difference modulo 2 pi) for [rad, rad, rad]
\* storage and is the naive difference otherwise, and what is plotted is
\* that difference converted from storageUnits to displayUnits.
C9_PlottedIsConvertedDifference ==
    (last.op = "plot" /\ last.ref # None) =>
        \A n \in 1..Len(draws) :
            SameShape(SeriesOf(n), RefOf(n))
                => draws[n].y = ColumnsScaled(ExpectedDifference(SeriesOf(n), RefOf(n)),
                                              units, output_units)

\* A keyed [rad, rad, rad] table shown in deg against a keyed reference: the
\* difference pi, pi + 1 step, -pi is plotted as pi, 1 step - pi, pi in deg.
C9_Witness ==
    /\ last.op = "plot"
    /\ last.err = "none"
    /\ last.ref = Some([data |-> Dict(<<[k |-> 0, d |-> RefTable(0)]>>)])
    /\ units = RadRadRad
    /\ output_units = <<"deg", "deg", "deg">>
    /\ data = Dict(<<[k |-> 0, d |-> AngleTable(PiSteps)]>>)
    /\ Len(draws) = 1
    /\ draws[1].y.v = <<<<<<PiSteps, -1>>, <<1 - PiSteps, -1>>, <<PiSteps, -1>>>>>>

\* C10: plot on a Dataset that is not plottable calls no figure function
\* and raises nothing.
C10_NotPlottableNoCalls ==
    (last.op = "plot" /\ ~plottable) => draws = << >> /\ last.err = "none"

\* A keyed payload, all keys asked for, a reference, 3-D mode: not plotted.
C10_Witness ==
    /\ last.op = "plot"
    /\ ~plottable
    /\ data.kind = "dict"
    /\ data.items # << >>
    /\ last.key = Some(<< >>)
    /\ last.ref # None
    /\ last.plot3d = 1
    /\ draws = << >>

====
